---- MODULE Spec2Model ----
(***************************************************************************)
(* Model of frontend/src/hooks/query/use-task-polling.ts:                  *)
(*   - useTaskPolling: one visit of the /conversations/:conversationId     *)
(*     route by one hook instance, with the react-query observer it        *)
(*     creates (fetch in flight, refetch interval, cached data and error), *)
(*     the two effects and the navigation they request;                     *)
(*   - WebSocketProviderWrapper: the render function and the data its two   *)
(*     data hooks deliver.                                                  *)
(* JavaScript strings are sequences of characters; the values undefined    *)
(* and null are the one-element sequences Undefined and Null, which no     *)
(* string of the model equals.  URLs are sequences whose host is one atom. *)
(***************************************************************************)
EXTENDS Integers, Sequences, FiniteSets, TLC

VARIABLES
    param,            \* useConversationId().conversationId, the route parameter
    mounted,          \* the component using the hook is mounted
    queryKey,         \* taskId of the ["start-task", taskId] query the hook created
    taskData,         \* query.state.data of that query
    taskFailed,       \* query.state.error is set (taskQuery.error)
    fetching,         \* a queryFn call of that query is in flight
    timer,            \* the observer's current refetch interval (0: none)
    dirty,            \* a re-render of the component is scheduled
    cacheEffectDeps,  \* taskQuery.data the pre-cache effect last ran with
    navEffectDeps,    \* taskQuery.data the navigate effect last ran with
    pendingNav,       \* path handed to navigate() and not yet applied by the router
    requests,         \* calls of V1ConversationService.getStartTask so far
    navCalls,         \* calls of navigate() so far
    cacheWrites,      \* calls of queryClient.setQueryData so far
    subCache,         \* data of useSubConversations / the ["v1","sub-conversations",..] entry
    version,          \* WebSocketProviderWrapper props.version
    conversation,     \* data of useActiveConversation
    rendered          \* outcome of the last WebSocketProviderWrapper render

pollerVars == <<param, mounted, queryKey, taskData, taskFailed, fetching, timer,
                dirty, cacheEffectDeps, navEffectDeps, pendingNav, requests,
                navCalls, cacheWrites>>
wrapperVars == <<version, conversation, rendered>>
vars == <<param, mounted, queryKey, taskData, taskFailed, fetching, timer,
          dirty, cacheEffectDeps, navEffectDeps, pendingNav, requests,
          navCalls, cacheWrites, subCache, version, conversation, rendered>>

----------------------------------------------------------------------------
(* Bounds *)
MaxPieces == 2      \* route parameters are concatenations of at most MaxPieces pieces
MaxRequests == 3    \* getStartTask is called at most MaxRequests times

----------------------------------------------------------------------------
(* JavaScript values *)
Undefined == <<"undefined">>
Null == <<"null">>
Truthy(v) == v \notin {Undefined, Null, <<>>}
OrElse(a, b) == IF Truthy(a) THEN a ELSE b          \* a || b

StartsWith(s, pre) == Len(s) >= Len(pre) /\ SubSeq(s, 1, Len(pre)) = pre

\* String.prototype.indexOf, 1-based; 0 when pat does not occur
IndexOf(s, pat) ==
    LET hits == {i \in 1..(Len(s) - Len(pat) + 1) : SubSeq(s, i, i + Len(pat) - 1) = pat}
    IN  IF hits = {} THEN 0 ELSE CHOOSE i \in hits : \A j \in hits : i <= j

\* String.prototype.replace with a string pattern: the first occurrence only
ReplaceFirst(s, pat, rep) ==
    LET i == IndexOf(s, pat)
    IN  IF i = 0 THEN s
        ELSE SubSeq(s, 1, i - 1) \o rep \o SubSeq(s, i + Len(pat), Len(s))

RECURSIVE ReplaceAll(_, _, _)
ReplaceAll(s, pat, rep) ==
    LET i == IndexOf(s, pat)
    IN  IF i = 0 THEN s
        ELSE SubSeq(s, 1, i - 1) \o rep
               \o ReplaceAll(SubSeq(s, i + Len(pat), Len(s)), pat, rep)

----------------------------------------------------------------------------
(* useTaskPolling: derived values *)
TaskMarker == <<"t", "a", "s", "k", "-">>

IsTaskIncludes(conversationId) == IndexOf(conversationId, TaskMarker) # 0
IsTask(conversationId) == StartsWith(conversationId, TaskMarker)

TaskIdReplaceAll(conversationId) ==
    IF IsTask(conversationId) THEN ReplaceAll(conversationId, TaskMarker, <<>>) ELSE Null
TaskId(conversationId) ==
    IF IsTask(conversationId) THEN ReplaceFirst(conversationId, TaskMarker, <<>>) ELSE Null

Enabled(taskId) == Truthy(taskId)

PollInterval == 3000
NoInterval == 0

\* task values: undefined (no data), null, or a start task
NoTask(tag) == [tag |-> tag, status |-> "undefined", app_conversation_id |-> Undefined,
                agent_server_url |-> Undefined, sandbox_id |-> Undefined]
UndefinedTask == NoTask("undefined")
NullTask == NoTask("null")
Statuses == {"WORKING", "WAITING_FOR_SANDBOX", "READY", "ERROR"}
AppConversationId == <<"c">>
AgentServerUrl == <<"http://", "localhost", ":8000">>
SandboxId == <<"s">>
Tasks == [tag : {"task"}, status : Statuses,
          app_conversation_id : {Null, AppConversationId},
          agent_server_url : {Null, AgentServerUrl},
          sandbox_id : {SandboxId}]

RefetchIntervalNoData(task) ==
    IF task.tag # "task" THEN PollInterval
    ELSE IF task.status = "READY" \/ task.status = "ERROR" THEN NoInterval
    ELSE PollInterval
RefetchIntervalNoError(task) ==
    IF task.tag # "task" THEN NoInterval
    ELSE IF task.status = "READY" THEN NoInterval
    ELSE PollInterval
RefetchInterval(task) ==
    IF task.tag # "task" THEN NoInterval
    ELSE IF task.status = "READY" \/ task.status = "ERROR" THEN NoInterval
    ELSE PollInterval

\* taskQuery.data: the data of the query with key ["start-task", taskId]
ObservedDataSharedKey(p) == taskData
ObservedData(p) == IF TaskId(p) = queryKey THEN taskData ELSE UndefinedTask

\* interval the observer arms for route parameter p and query data d
TimerFor(p, d) == IF Enabled(TaskId(p)) THEN RefetchInterval(d) ELSE NoInterval

ShouldPreCacheNoUrl(task) ==
    task.status = "READY" /\ Truthy(task.app_conversation_id)
ShouldPreCache(task) ==
    task.status = "READY" /\ Truthy(task.app_conversation_id)
        /\ Truthy(task.agent_server_url)

ShouldNavigateAnyStatus(task) == Truthy(task.app_conversation_id)
ShouldNavigate(task) ==
    task.status = "READY" /\ Truthy(task.app_conversation_id)

PreCacheEntry(task) ==
    [tag |-> "conv", id |-> task.app_conversation_id,
     conversation_url |-> task.agent_server_url,
     session_api_key |-> Null, sandbox_id |-> task.sandbox_id]

ConversationsPath == <<"/conversations/">>
ConversationPath(id) == ConversationsPath \o id
RouteParam(path) == Tail(path)

ReturnConversationIdAlways(p) == p
ReturnConversationId(p) == IF IsTask(p) THEN Null ELSE p

UseTaskPollingReturn ==
    [isTask |-> IsTask(param),
     taskId |-> TaskId(param),
     conversationId |-> ReturnConversationId(param),
     task |-> ObservedData(param),
     taskStatus |-> ObservedData(param).status,
     taskError |-> (TaskId(param) = queryKey /\ taskFailed)]

----------------------------------------------------------------------------
(* Route parameters *)
Pieces == {TaskMarker, <<"t", "a", "s", "k">>, <<"c">>, <<"-">>}

RECURSIVE Strings(_)
Strings(n) ==
    IF n = 0 THEN {<<>>}
    ELSE LET prev == Strings(n - 1)
         IN  prev \cup {s \o p : s \in prev, p \in Pieces}

Params == Strings(MaxPieces) \ {<<>>}
DirectParams == {p \in Params : Len(p) = 1}

----------------------------------------------------------------------------
(* WebSocketProviderWrapper *)
Versions == {0, 1, 2}
UndefinedConversation == [tag |-> "undefined", url |-> Undefined, session_api_key |-> Undefined]
Urls == {Null, AgentServerUrl, <<"https://", "app.example", "/c">>}
SessionKeys == {Null, <<"k">>}
Conversations == [tag : {"conv"}, url : Urls, session_api_key : SessionKeys]

NullEntry == [tag |-> "null", id |-> Null, conversation_url |-> Null,
              session_api_key |-> Null, sandbox_id |-> Null]
FetchedEntries == [tag : {"conv"}, id : {AppConversationId, <<"-">>},
                   conversation_url : {Null, AgentServerUrl},
                   session_api_key : SessionKeys, sandbox_id : {SandboxId}]
UndefinedList == [tag |-> "undefined", items |-> <<>>]
ListOf(items) == [tag |-> "array", items |-> items]

\* subConversations?.filter(s => s !== null)
FilteredSubConversations(subs) ==
    IF subs.tag = "undefined" THEN subs
    ELSE ListOf(SelectSeq(subs.items, LAMBDA e : e.tag # "null"))

\* filteredSubConversations?.find(conv => conv.id === conversationId)
FindConversation(subs, conversationId) ==
    LET hits == {i \in 1..Len(subs.items) : subs.items[i].id = conversationId}
    IN  IF subs.tag = "undefined" \/ hits = {} THEN
            [tag |-> "undefined", id |-> Undefined, conversation_url |-> Undefined,
             session_api_key |-> Undefined, sandbox_id |-> Undefined]
        ELSE subs.items[CHOOSE i \in hits : \A j \in hits : i <= j]

NotRendered == [kind |-> "none", conversationId |-> Undefined,
                conversationUrl |-> Undefined, sessionApiKey |-> Undefined]
Outcome(kind, id, url, key) ==
    [kind |-> kind, conversationId |-> id, conversationUrl |-> url, sessionApiKey |-> key]

RenderV1(conversationId, conv, subs) ==
    LET filtered == FilteredSubConversations(subs)
        v1AppConversation == FindConversation(filtered, conversationId)
        v1ConversationUrl == OrElse(v1AppConversation.conversation_url, conv.url)
        v1SessionApiKey == OrElse(v1AppConversation.session_api_key, conv.session_api_key)
    IN  IF v1ConversationUrl \in {Undefined, Null}
        THEN Outcome("TypeError", Undefined, Undefined, Undefined)
        ELSE Outcome("ConversationWebSocketProvider", conversationId,
                     ReplaceFirst(v1ConversationUrl, <<"localhost">>, <<"sheepintry.com">>),
                     v1SessionApiKey)

WebSocketProviderWrapperNoThrow(v, conversationId, conv, subs) ==
    IF v = 0 THEN Outcome("WsClientProvider", conversationId, Undefined, Undefined)
    ELSE RenderV1(conversationId, conv, subs)
WebSocketProviderWrapper(v, conversationId, conv, subs) ==
    IF v = 0 THEN Outcome("WsClientProvider", conversationId, Undefined, Undefined)
    ELSE IF v = 1 THEN RenderV1(conversationId, conv, subs)
    ELSE Outcome("Error", Undefined, Undefined, Undefined)

----------------------------------------------------------------------------
(* useTaskPolling: one visit of the route *)
Init ==
    /\ param \in Params
    /\ mounted = TRUE
    /\ queryKey = TaskId(param)
    /\ taskData = UndefinedTask
    /\ taskFailed = FALSE
    /\ fetching = Enabled(TaskId(param))          \* the fetch on mount
    /\ requests = IF Enabled(TaskId(param)) THEN 1 ELSE 0
    /\ timer = TimerFor(param, UndefinedTask)
    /\ dirty = FALSE
    /\ cacheEffectDeps = UndefinedTask            \* both effects ran on mount
    /\ navEffectDeps = UndefinedTask
    /\ pendingNav = Undefined
    /\ navCalls = 0
    /\ cacheWrites = 0
    /\ subCache = UndefinedList
    /\ version = 1
    /\ conversation = UndefinedConversation
    /\ rendered = NotRendered

\* whether the mounted hook's observer is subscribed to the created query
Observing(p) == mounted /\ TaskId(p) = queryKey

\* getStartTask resolved with data (a task or null)
FetchSuccess(data) ==
    /\ fetching
    /\ fetching' = FALSE
    /\ taskData' = data
    /\ taskFailed' = FALSE
    /\ timer' = IF Observing(param) THEN TimerFor(param, data) ELSE timer
    /\ dirty' = IF Observing(param) THEN TRUE ELSE dirty
    /\ UNCHANGED <<param, mounted, queryKey, cacheEffectDeps, navEffectDeps, pendingNav,
                   requests, navCalls, cacheWrites, subCache, version, conversation,
                   rendered>>

\* getStartTask rejected; retry: false, so the query goes to the error state
FetchFailure ==
    /\ fetching
    /\ fetching' = FALSE
    /\ taskFailed' = TRUE
    /\ timer' = IF Observing(param) THEN TimerFor(param, taskData) ELSE timer
    /\ dirty' = IF Observing(param) THEN TRUE ELSE dirty
    /\ UNCHANGED <<param, mounted, queryKey, taskData, cacheEffectDeps, navEffectDeps,
                   pendingNav, requests, navCalls, cacheWrites, subCache, version,
                   conversation, rendered>>

\* the refetch interval fires and the observer fetches
PollTick ==
    /\ timer > 0
    /\ ~fetching
    /\ requests < MaxRequests
    /\ fetching' = TRUE
    /\ requests' = requests + 1
    /\ UNCHANGED <<param, mounted, queryKey, taskData, taskFailed, timer, dirty,
                   cacheEffectDeps, navEffectDeps, pendingNav, navCalls, cacheWrites,
                   subCache, version, conversation, rendered>>

\* the same commit with the dependency arrays ignored
RenderNoDeps ==
    /\ mounted
    /\ dirty
    /\ dirty' = FALSE
    /\ LET task == ObservedData(param)
       IN  /\ cacheEffectDeps' = task
           /\ navEffectDeps' = task
           /\ IF ShouldPreCache(task)
              THEN /\ subCache' = ListOf(<<PreCacheEntry(task)>>)
                   /\ cacheWrites' = cacheWrites + 1
              ELSE UNCHANGED <<subCache, cacheWrites>>
           /\ IF ShouldNavigate(task)
              THEN /\ pendingNav' = ConversationPath(task.app_conversation_id)
                   /\ navCalls' = navCalls + 1
              ELSE UNCHANGED <<pendingNav, navCalls>>
    /\ UNCHANGED <<param, mounted, queryKey, taskData, taskFailed, fetching, timer,
                   requests, version, conversation, rendered>>

\* the component renders and commits: each effect runs if its dependency changed
Render ==
    /\ mounted
    /\ dirty
    /\ dirty' = FALSE
    /\ LET task == ObservedData(param)
           runCache == task # cacheEffectDeps
           runNav == task # navEffectDeps
       IN  /\ cacheEffectDeps' = task
           /\ navEffectDeps' = task
           /\ IF runCache /\ ShouldPreCache(task)
              THEN /\ subCache' = ListOf(<<PreCacheEntry(task)>>)
                   /\ cacheWrites' = cacheWrites + 1
              ELSE UNCHANGED <<subCache, cacheWrites>>
           /\ IF runNav /\ ShouldNavigate(task)
              THEN /\ pendingNav' = ConversationPath(task.app_conversation_id)
                   /\ navCalls' = navCalls + 1
              ELSE UNCHANGED <<pendingNav, navCalls>>
    /\ UNCHANGED <<param, mounted, queryKey, taskData, taskFailed, fetching, timer,
                   requests, version, conversation, rendered>>

\* a render requested from outside the hook (parent or sibling state)
ParentRerender ==
    /\ mounted
    /\ ~dirty
    /\ dirty' = TRUE
    /\ UNCHANGED <<param, mounted, queryKey, taskData, taskFailed, fetching, timer,
                   cacheEffectDeps, navEffectDeps, pendingNav, requests, navCalls,
                   cacheWrites, subCache, version, conversation, rendered>>

\* the route parameter becomes p: the observer switches to the query of p
SetParam(p) ==
    /\ param' = p
    /\ timer' = IF mounted THEN TimerFor(p, ObservedData(p)) ELSE timer
    /\ dirty' = mounted

\* the router applies navigate(path, { replace: true })
ApplyNavigation ==
    /\ pendingNav # Undefined
    /\ SetParam(RouteParam(pendingNav))
    /\ pendingNav' = Undefined
    /\ UNCHANGED <<mounted, queryKey, taskData, taskFailed, fetching, cacheEffectDeps,
                   navEffectDeps, requests, navCalls, cacheWrites, subCache, version,
                   conversation, rendered>>

\* the user leaves the task segment for a direct conversation
RouteChange(p) ==
    /\ mounted
    /\ p # param
    /\ SetParam(p)
    /\ UNCHANGED <<mounted, queryKey, taskData, taskFailed, fetching, cacheEffectDeps,
                   navEffectDeps, pendingNav, requests, navCalls, cacheWrites, subCache,
                   version, conversation, rendered>>

\* the component unmounts: the observer unsubscribes and clears its interval
Unmount ==
    /\ mounted
    /\ mounted' = FALSE
    /\ timer' = NoInterval
    /\ dirty' = FALSE
    /\ UNCHANGED <<param, queryKey, taskData, taskFailed, fetching, cacheEffectDeps,
                   navEffectDeps, pendingNav, requests, navCalls, cacheWrites, subCache,
                   version, conversation, rendered>>

Next ==
    \/ \E data \in Tasks \cup {NullTask} : FetchSuccess(data)
    \/ FetchFailure
    \/ PollTick
    \/ Render
    \/ ParentRerender
    \/ ApplyNavigation
    \/ \E p \in DirectParams : RouteChange(p)
    \/ Unmount

Spec == Init /\ [][Next]_vars

----------------------------------------------------------------------------
(* WebSocketProviderWrapper: the data hooks deliver, the component renders *)
InitWs ==
    /\ param \in DirectParams                     \* the conversationId prop
    /\ mounted = TRUE
    /\ queryKey = Null
    /\ taskData = UndefinedTask
    /\ taskFailed = FALSE
    /\ fetching = FALSE
    /\ requests = 0
    /\ timer = NoInterval
    /\ dirty = FALSE
    /\ cacheEffectDeps = UndefinedTask
    /\ navEffectDeps = UndefinedTask
    /\ pendingNav = Undefined
    /\ navCalls = 0
    /\ cacheWrites = 0
    /\ subCache = UndefinedList
    /\ version \in Versions
    /\ conversation = UndefinedConversation
    /\ rendered = NotRendered

\* useActiveConversation delivers the conversation
ConversationLoaded(c) ==
    /\ conversation # c
    /\ conversation' = c
    /\ UNCHANGED <<pollerVars, subCache, version, rendered>>

FetchedLists ==
    {<<>>, <<NullEntry>>} \cup {<<e>> : e \in FetchedEntries}
        \cup {<<NullEntry, e>> : e \in FetchedEntries}

\* useSubConversations delivers the fetched sub-conversations
SubConversationsLoaded(items) ==
    /\ subCache # ListOf(items)
    /\ subCache' = ListOf(items)
    /\ UNCHANGED <<pollerVars, version, conversation, rendered>>

\* the entry useTaskPolling's pre-cache effect wrote for a READY task
PreCacheWrite(task) ==
    /\ ShouldPreCache(task)
    /\ subCache # ListOf(<<PreCacheEntry(task)>>)
    /\ subCache' = ListOf(<<PreCacheEntry(task)>>)
    /\ UNCHANGED <<pollerVars, version, conversation, rendered>>

RenderWrapper ==
    /\ rendered' = WebSocketProviderWrapper(version, param, conversation, subCache)
    /\ rendered' # rendered
    /\ UNCHANGED <<pollerVars, subCache, version, conversation>>

NextWs ==
    \/ \E c \in Conversations : ConversationLoaded(c)
    \/ \E items \in FetchedLists : SubConversationsLoaded(items)
    \/ \E task \in Tasks : PreCacheWrite(task)
    \/ RenderWrapper

SpecWs == InitWs /\ [][NextWs]_vars

----------------------------------------------------------------------------
(* Properties of useTaskPolling *)
Terminal(task) == task.status \in {"READY", "ERROR"}
InProgress(task) == task.tag = "task" /\ ~Terminal(task)
OnTaskRoute == StartsWith(param, TaskMarker)
\* a mounted hook on a task route whose latest poll has settled
PollSettled == mounted /\ OnTaskRoute /\ ~fetching /\ requests >= 1
CountersUnchanged ==
    requests' = requests /\ cacheWrites' = cacheWrites /\ navCalls' = navCalls

\* C1 as stated: after the polls so far, another poll is scheduled if and only
\* if the latest status is neither READY nor ERROR, also when no task data
\* was received.
C1_Original ==
    PollSettled => ((timer > 0) <=> ~Terminal(taskData))

\* C1 amended: another poll is scheduled if and only if task data is present
\* and its status is neither READY nor ERROR; with no task data (null result,
\* or a failed first fetch) polling stops.
C1_PollsWhileInProgress ==
    PollSettled => ((timer > 0) <=> InProgress(taskData))

C1_Witness ==
    /\ PollSettled /\ requests = 2 /\ taskData.status = "READY" /\ timer = 0

\* C2: navigate() is called at most once, and once the hook has rendered a
\* READY task that has app_conversation_id it has been called exactly once,
\* with the path /conversations/{app_conversation_id}.
C2_NavigatesExactlyOnce ==
    /\ navCalls <= 1
    /\ (mounted /\ ~dirty /\ OnTaskRoute /\ taskData.status = "READY"
            /\ Truthy(taskData.app_conversation_id))
         => /\ navCalls = 1
            /\ pendingNav = ConversationsPath \o taskData.app_conversation_id

C2_Witness ==
    /\ navCalls = 1 /\ mounted /\ ~dirty /\ param = AppConversationId
    /\ navEffectDeps = UndefinedTask

\* C3 as stated: the cache write happens if and only if the navigation
\* happens, each at most once.
C3_Original ==
    /\ navCalls <= 1 /\ cacheWrites <= 1
    /\ (cacheWrites = 1) <=> (navCalls = 1)

\* C3 amended: each happens at most once; a cache write happens only in the
\* commit that calls navigate(), and that commit writes the cache if and only
\* if the READY task also has agent_server_url.
C3_WriteOnlyWithNavigation ==
    /\ [](navCalls <= 1 /\ cacheWrites <= navCalls)
    /\ [][/\ (cacheWrites' # cacheWrites) => (navCalls' = navCalls + 1)
          /\ (navCalls' # navCalls) =>
                ((cacheWrites' = cacheWrites + 1) <=> Truthy(taskData.agent_server_url))]_vars

C3_Witness ==
    /\ navCalls = 1 /\ cacheWrites = 0 /\ taskData.status = "READY"
    /\ taskData.agent_server_url = Null /\ subCache = UndefinedList

\* C4 as stated: once a fetch of the task has failed, no further request is
\* issued.
C4_Original ==
    [][taskFailed => requests' = requests]_vars

\* C4 amended: a failed fetch shows as taskError; after a failure with no
\* in-progress task data (the first fetch failed) no further request is
\* issued, and the interval is not armed.
C4_NoRequestAfterFirstFailure ==
    /\ []((mounted /\ OnTaskRoute /\ taskFailed) => UseTaskPollingReturn.taskError)
    /\ []((taskFailed /\ ~InProgress(taskData)) => timer = 0)
    /\ [][(taskFailed /\ ~InProgress(taskData)) => requests' = requests]_vars

C4_Witness ==
    /\ taskFailed /\ taskData = UndefinedTask /\ requests = 1 /\ ~fetching /\ mounted
    /\ OnTaskRoute /\ ~dirty

\* C6: for a route parameter that starts with "task-", taskId is the rest of
\* the parameter after the prefix and isTask is true; otherwise taskId is null
\* and isTask is false.
C6_TaskIdIsRemainder ==
    LET r == UseTaskPollingReturn
    IN  IF StartsWith(param, TaskMarker)
        THEN r.isTask /\ r.taskId = SubSeq(param, Len(TaskMarker) + 1, Len(param))
        ELSE ~r.isTask /\ r.taskId = Null

C6_Witness ==
    /\ param = TaskMarker \o TaskMarker
    /\ UseTaskPollingReturn.taskId = TaskMarker
    /\ requests >= 2

\* C8: once the component has unmounted, or the route parameter is no longer
\* a task, the interval of an unmounted hook is cleared and no step issues a
\* request, writes the cache or navigates.
C8_NothingAfterUnmount ==
    /\ [](~mounted => timer = 0)
    /\ [][(~mounted \/ ~OnTaskRoute) => CountersUnchanged]_vars

C8_Witness ==
    /\ ~mounted /\ taskData.status = "READY" /\ Truthy(taskData.app_conversation_id)
    /\ navCalls = 0 /\ cacheWrites = 0 /\ ~fetching

\* C9: with a direct conversation id as route parameter no request has been
\* issued when the hook mounts and none is issued later, nothing is written
\* or navigated, and conversationId is the parameter; with a task parameter
\* conversationId is null.
C9_DirectIdNeverPolls ==
    /\ ~OnTaskRoute => (requests = 0 /\ ~fetching /\ timer = 0)
    /\ [](queryKey = Null => (requests = 0 /\ navCalls = 0 /\ cacheWrites = 0))
    /\ [][~OnTaskRoute => (CountersUnchanged /\ (~fetching => ~fetching'))]_vars
    /\ [](UseTaskPollingReturn.conversationId = IF OnTaskRoute THEN Null ELSE param)

C9_Witness ==
    /\ param = <<"c">> \o TaskMarker /\ requests = 0 /\ ~mounted /\ queryKey = Null

\* C10: while the polled data is not READY (in progress, ERROR, null or
\* absent) neither navigate nor setQueryData has been called, and no step of
\* the hook's effects changes the polled task data.
C10_OnlyReadyTriggers ==
    /\ [](taskData.status # "READY" => (navCalls = 0 /\ cacheWrites = 0))
    /\ [][(navCalls' # navCalls \/ cacheWrites' # cacheWrites
             \/ navEffectDeps' # navEffectDeps \/ cacheEffectDeps' # cacheEffectDeps)
            => taskData' = taskData]_vars

C10_Witness ==
    /\ taskData.status = "ERROR" /\ Truthy(taskData.app_conversation_id)
    /\ Truthy(taskData.agent_server_url) /\ mounted /\ ~dirty
    /\ navEffectDeps = taskData /\ cacheEffectDeps = taskData

----------------------------------------------------------------------------
(* Properties of WebSocketProviderWrapper *)
Providers == {"WsClientProvider", "ConversationWebSocketProvider"}
Mounted(r) == IF r.kind \in Providers THEN {r.kind} ELSE {}

C7_Original ==
    rendered.kind = "ConversationWebSocketProvider" =>
        /\ rendered.conversationUrl \notin {Undefined, Null}
        /\ rendered.sessionApiKey \notin {Undefined, Null}

====
